---- MODULE Spec2Model ----
(***************************************************************************)
(* Model of src/cpu/tbb/discretization.c: the tiled convolution            *)
(* (compute_convolution), the explicit Euler update (step_in_time) and the *)
(* parallel residual reduction (check_solution) over tbb::blocked_range2d. *)
(*                                                                         *)
(* Numbers.  The C code works on doubles.  The model works on integers:    *)
(* field values, mask coefficients, D and dt are integers, so products and *)
(* sums are exact; floating-point rounding is not modelled.  A field of    *)
(* the program has ny rows and nx columns and is indexed A[j][i], row j    *)
(* first.  An access outside rows 0..ny-1 or columns 0..nx-1 is undefined  *)
(* behaviour: a read returns an arbitrary value of Garbage, a write is     *)
(* lost, and the flag oob records that it happened.                        *)
(***************************************************************************)
EXTENDS Integers, Sequences, FiniteSets, TLC

VARIABLES
    op,       \* the call in progress: "conv", "step" or "check"
    pc,       \* "run" while tiles are outstanding or unjoined, "done" after return
    nx, ny,   \* grid size arguments
    nm,       \* stencil radius argument
    A, B, C,  \* fields: A[j][i] with j in 0..ny-1, i in 0..nx-1
    M,        \* mask: M[mj+nm][mi+nm]
    D, dt,    \* diffusivity and time step
    elapsed,  \* the caller's elapsed-time accumulator (*elapsed), or the elapsed argument
    dx, dy,   \* grid spacing (check_solution)
    bc,       \* boundary descriptor bc[2][2]
    tasks,    \* outstanding sub-ranges of the parallel call, each with its body
    bodies,   \* ResidualSumOfSquares2D instances of a parallel_reduce
    rss,      \* *rss, the result of check_solution
    wlog,     \* history: <<field, j, i>> -> number of writes during this call
    rlog,     \* history: set of <<field, j, i>> read during this call
    oob,      \* history: some access of this call fell outside a field
    cellLog,  \* history: the locals, per cell, of the latest run of
              \* ResidualSumOfSquares2D::operator()
    ref,      \* history: what an unsplit run of the same call leaves in the
              \* output field (in *rss for check_solution)
    init,     \* history: the arguments as they were when the first call started
    calls,    \* number of completed calls
    step, steps, checks,  \* main: loop counter, number of steps, image interval
    linStab,  \* main: stability parameter
    conc_old, conc_new,   \* main: which buffer of the pair each pointer refers to
    bufs,     \* main: per buffer, the step whose result it holds
    runlog,   \* rows written to runlog.csv
    files,    \* images and tables written: <<kind, buffer, content, step>>
    checked,  \* history: the calls of check_solution made by main
    solved    \* history: the calls of solve_diffusion_equation made by main

mainVars == <<step, steps, checks, linStab, conc_old, conc_new, bufs, runlog,
              files, checked, solved>>

vars == <<op, pc, nx, ny, nm, A, B, C, M, D, dt, elapsed, dx, dy, bc, tasks,
          bodies, rss, wlog, rlog, oob, cellLog, ref, init, calls, mainVars>>

(***************************************************************************)
(* Bounds of the model.                                                    *)
(***************************************************************************)
\* largest nx and ny (the smallest is 3: one interior cell)
MaxN == 5
\* number of test fields per grid size
MaxSeed == 1
\* number of consecutive calls of step_in_time
MaxCalls == 2
\* number of ResidualSumOfSquares2D bodies alive at a time (threads at work)
MaxBodies == 2
\* grain size of the blocked ranges.  The program uses 16 on grids of 512;
\* the model scales it down with the grid so that ranges split.
tbb_bs == 1
\* grid spacings are the fractions p/q with p, q in 1 .. MaxH
MaxH == 4
\* the largest number of steps of a run of main
MaxSteps == 6
\* the largest image interval (`checks`) of a run of main
MaxChecks == 3
\* the residual interval of main, 100 in the source, scaled down
ResidualInterval == 2

\* values an out-of-bounds read may return
Garbage == {0, 1}

(***************************************************************************)
(* Helpers                                                                 *)
(***************************************************************************)
RECURSIVE SeqSum(_)
SeqSum(s) == IF s = <<>> THEN 0 ELSE Head(s) + SeqSum(Tail(s))

Rows == 0 .. ny - 1
Cols == 0 .. nx - 1

InField(j, i) == j \in Rows /\ i \in Cols

\* the interior of the domain as the specification defines it
Interior == {c \in Rows \X Cols : c[1] \in 1 .. ny - 2 /\ c[2] \in 1 .. nx - 2}

\* a test field: values vary along rows and along columns differently
TestField(s, rows, cols) ==
    [j \in 0 .. rows - 1 |-> [i \in 0 .. cols - 1 |-> (3 * j + i * i + s) % 7]]

\* A[j][i] as the program reads it; g gives the value found outside the field
ReadField(F, j, i, g) == IF InField(j, i) THEN F[j][i] ELSE g[<<j, i>>]

\* F with the cells of the function w (cell -> value) stored; stores outside
\* the field are lost
WriteField(F, w) ==
    [j \in Rows |-> [i \in Cols |->
        IF <<j, i>> \in DOMAIN w THEN w[<<j, i>>] ELSE F[j][i]]]

LogWrites(fld, cells) ==
    LET keys == {<<fld, c[1], c[2]>> : c \in cells}
    IN [k \in DOMAIN wlog \cup keys |->
          (IF k \in DOMAIN wlog THEN wlog[k] ELSE 0) + (IF k \in keys THEN 1 ELSE 0)]

(***************************************************************************)
(* tbb::blocked_range2d<int>                                               *)
(***************************************************************************)
Range(b, e) == [begin |-> b, end |-> e]
Size(r) == r.end - r.begin
Range2d(rb, re, cb, ce) == [rows |-> Range(rb, re), cols |-> Range(cb, ce)]

\* blocked_range2d(1, ny-1, tbb_bs, 1, nx-1, tbb_bs): rows first, then cols
FullRange == Range2d(1, ny - 1, 1, nx - 1)

IsDivisible(r) == Size(r.rows) > tbb_bs \/ Size(r.cols) > tbb_bs

Middle(r) == r.begin + (Size(r) \div 2)

\* the two halves of a split: the dimension that is larger splits in the
\* middle (both dimensions have the same grain size)
SplitLeft(r) ==
    IF Size(r.rows) < Size(r.cols)
    THEN [r EXCEPT !.cols = Range(r.cols.begin, Middle(r.cols))]
    ELSE [r EXCEPT !.rows = Range(r.rows.begin, Middle(r.rows))]

SplitRight(r) ==
    IF Size(r.rows) < Size(r.cols)
    THEN [r EXCEPT !.cols = Range(Middle(r.cols), r.cols.end)]
    ELSE [r EXCEPT !.rows = Range(Middle(r.rows), r.rows.end)]

\* the cells <<j, i>> the loops of a body visit:
\*   for (j = r.cols().begin(); j != r.cols().end(); j++)
\*     for (i = r.rows().begin(); i != r.rows().end(); i++)
LoopCells(r) ==
    {<<j, i>> : j \in r.cols.begin .. r.cols.end - 1,
                i \in r.rows.begin .. r.rows.end - 1}

(***************************************************************************)
(* ComputeConvolution2D::operator()                                        *)
(***************************************************************************)
MaskOffsets == {<<mj, mi>> : mj \in -nm .. nm, mi \in -nm .. nm}

\* the cells of A the stencil at <<j, i>> reads
StencilCells(j, i) == {<<j + d[1], i + d[2]>> : d \in MaskOffsets}

\* value += M[mj+nm][mi+nm] * A[j+mj][i+mi], mj outer, mi inner
ConvValue(j, i, g) ==
    LET w == 2 * nm + 1
        term(k) == LET mj == ((k - 1) \div w) - nm
                       mi == ((k - 1) % w) - nm
                   IN M[mj + nm][mi + nm] * ReadField(A, j + mj, i + mi, g)
    IN SeqSum([k \in 1 .. w * w |-> term(k)])

ConvReads(r) == UNION {StencilCells(c[1], c[2]) : c \in LoopCells(r)}

OutOfField(cells) == {c \in cells : ~InField(c[1], c[2])}

\* C after one application of the body to the range r
ConvTileResult(r, g) ==
    WriteField(C, [c \in LoopCells(r) |-> ConvValue(c[1], c[2], g)])

(***************************************************************************)
(* StepInTime2D::operator()                                                *)
(***************************************************************************)
\* B[j][i] = A[j][i] + dt * D * C[j][i]
StepValue(j, i, ga, gc) ==
    ReadField(A, j, i, ga) + dt * D * ReadField(C, j, i, gc)

\* B after one application of the body to the range r
StepTileResult(r, ga, gc) ==
    WriteField(B, [c \in LoopCells(r) |-> StepValue(c[1], c[2], ga, gc)])

\* a faulty variant: the accumulator is advanced in the body, once per tile
ElapsedPerTile(e, d) == e + d

\* what a tile task of step_in_time does to *elapsed: nothing
ElapsedAfterTile(e, d) == e

\* *elapsed += dt, after parallel_for has returned
ElapsedAfterStep(e, d) == e + d

(***************************************************************************)
(* Inputs                                                                  *)
(***************************************************************************)
\* the 5-point Laplacian of set_mask scaled by dx^2 * dy^2, and a mask whose
\* nine coefficients all differ

\* the variables of main while a single call is studied on its own
NoMain ==
    /\ step = 0 /\ steps = 0 /\ checks = 0 /\ linStab = 0
    /\ conc_old = 0 /\ conc_new = 0 /\ bufs = <<>>
    /\ runlog = <<>> /\ files = <<>> /\ checked = <<>> /\ solved = <<>>

Masks ==
    {[r \in 0 .. 2 |-> [c \in 0 .. 2 |->
         IF r = 1 /\ c = 1 THEN -2 * (h * h + 1)
         ELSE IF c = 1 THEN h * h
         ELSE IF r = 1 THEN 1
         ELSE 0]] : h \in 1 .. 2}
    \cup {[r \in 0 .. 2 |-> [c \in 0 .. 2 |-> 3 * r + c + 1]]}

NoField == <<>>
NoBodies == <<>>
NoLog == <<>>
ForBody == "copy"

(***************************************************************************)
(* parallel_for: compute_convolution and step_in_time                      *)
(***************************************************************************)
InitFor ==
    /\ op \in {"conv", "step"}
    /\ pc = "run"
    /\ nx \in 3 .. MaxN
    /\ ny \in 3 .. MaxN
    /\ nm = 1
    /\ \E s \in 0 .. MaxSeed :
         /\ A = TestField(s, ny, nx)
         /\ C = TestField(s + 2, ny, nx)
         /\ B = IF op = "step" THEN TestField(s + 4, ny, nx) ELSE NoField
    /\ M \in (IF op = "conv" THEN Masks ELSE {NoField})
    /\ D \in (IF op = "step" THEN {0, 2} ELSE {0})
    /\ dt \in (IF op = "step" THEN 1 .. 2 ELSE {0})
    /\ elapsed \in (IF op = "step" THEN {0, 3} ELSE {0})
    /\ dx = 0 /\ dy = 0 /\ bc = NoField /\ rss = NoLog
    /\ tasks = {[r |-> FullRange, b |-> ForBody]}
    /\ bodies = NoBodies
    /\ wlog = NoLog /\ rlog = {} /\ oob = FALSE /\ cellLog = NoLog
    /\ IF op = "conv"
       THEN \E g \in [OutOfField(ConvReads(FullRange)) -> Garbage] :
               ref = ConvTileResult(FullRange, g)
       ELSE \E ga \in [OutOfField(LoopCells(FullRange)) -> Garbage] :
               ref = StepTileResult(FullRange, ga, ga)
    /\ init = [elapsed |-> elapsed, A |-> A, B |-> B, C |-> C, M |-> M]
    /\ calls = 0
    /\ NoMain

\* a task whose range is divisible may be split in two before it runs
ForSplit ==
    /\ op \in {"conv", "step"} /\ pc = "run"
    /\ \E t \in tasks :
         /\ IsDivisible(t.r)
         /\ tasks' = (tasks \ {t}) \cup {[t EXCEPT !.r = SplitLeft(t.r)],
                                         [t EXCEPT !.r = SplitRight(t.r)]}
    /\ UNCHANGED <<mainVars, op, pc, nx, ny, nm, A, B, C, M, D, dt, elapsed, dx, dy, bc,
                   bodies, rss, wlog, rlog, oob, cellLog, ref, init, calls>>

\* one task runs ComputeConvolution2D::operator() on its range
ConvTile ==
    /\ op = "conv" /\ pc = "run"
    /\ \E t \in tasks :
         \E g \in [OutOfField(ConvReads(t.r)) -> Garbage] :
            /\ C' = ConvTileResult(t.r, g)
            /\ tasks' = tasks \ {t}
            /\ wlog' = LogWrites("C", LoopCells(t.r))
            /\ rlog' = rlog \cup {<<"A", c[1], c[2]>> : c \in ConvReads(t.r)}
            /\ oob' = (oob \/ OutOfField(ConvReads(t.r) \cup LoopCells(t.r)) # {})
    /\ UNCHANGED <<mainVars, op, pc, nx, ny, nm, A, B, M, D, dt, elapsed, dx, dy, bc,
                   bodies, rss, cellLog, ref, init, calls>>

\* parallel_for has returned: compute_convolution returns
ConvReturn ==
    /\ op = "conv" /\ pc = "run" /\ tasks = {}
    /\ pc' = "done"
    /\ calls' = calls + 1
    /\ UNCHANGED <<mainVars, op, nx, ny, nm, A, B, C, M, D, dt, elapsed, dx, dy, bc, tasks,
                   bodies, rss, wlog, rlog, oob, cellLog, ref, init>>

\* one task runs StepInTime2D::operator() on its range
StepTile ==
    /\ op = "step" /\ pc = "run"
    /\ \E t \in tasks :
         \E ga, gc \in [OutOfField(LoopCells(t.r)) -> Garbage] :
            /\ B' = StepTileResult(t.r, ga, gc)
            /\ tasks' = tasks \ {t}
            /\ wlog' = LogWrites("B", LoopCells(t.r))
            /\ rlog' = rlog \cup {<<"A", c[1], c[2]>> : c \in LoopCells(t.r)}
                            \cup {<<"C", c[1], c[2]>> : c \in LoopCells(t.r)}
            /\ oob' = (oob \/ OutOfField(LoopCells(t.r)) # {})
            /\ elapsed' = ElapsedAfterTile(elapsed, dt)
    /\ UNCHANGED <<mainVars, op, pc, nx, ny, nm, A, C, M, D, dt, dx, dy, bc,
                   bodies, rss, cellLog, ref, init, calls>>

\* parallel_for has returned: *elapsed += dt and step_in_time returns
StepReturn ==
    /\ op = "step" /\ pc = "run" /\ tasks = {}
    /\ elapsed' = ElapsedAfterStep(elapsed, dt)
    /\ pc' = "done"
    /\ calls' = calls + 1
    /\ UNCHANGED <<mainVars, op, nx, ny, nm, A, B, C, M, D, dt, dx, dy, bc, tasks,
                   bodies, rss, wlog, rlog, oob, cellLog, ref, init>>

\* the caller calls step_in_time again with the same arguments
StepAgain ==
    /\ op = "step" /\ pc = "done" /\ calls < MaxCalls
    /\ pc' = "run"
    /\ tasks' = {[r |-> FullRange, b |-> ForBody]}
    /\ wlog' = NoLog /\ rlog' = {} /\ oob' = FALSE
    /\ UNCHANGED <<mainVars, op, nx, ny, nm, A, B, C, M, D, dt, elapsed, dx, dy, bc,
                   bodies, rss, cellLog, ref, init, calls>>

NextFor == ForSplit \/ ConvTile \/ ConvReturn \/ StepTile \/ StepReturn \/ StepAgain

Spec == InitFor /\ [][NextFor]_vars

(***************************************************************************)
(* Arithmetic of check_solution.  Lengths and the erf argument are kept to *)
(* one decimal place (tenths), concentrations to three (thousandths); the  *)
(* residual is an exact rational <<numerator, denominator>> in lowest      *)
(* terms, of squared thousandths.                                          *)
(***************************************************************************)
RECURSIVE GCD(_, _)
GCD(a, b) == IF b = 0 THEN a ELSE GCD(b, a % b)

Rat(n, d) == LET k == GCD(n, d) IN <<n \div k, d \div k>>
RatAdd(p, q) == Rat(p[1] * q[2] + q[1] * p[2], p[2] * q[2])
Zero == <<0, 1>>

RECURSIVE SqrtFrom(_, _)
SqrtFrom(n, r) == IF (r + 1) * (r + 1) > n THEN r ELSE SqrtFrom(n, r + 1)
\* sqrt of a sum of squares, rounded down, in tenths
SqrtTenths(n) == SqrtFrom(100 * n, 0)

\* erf(z) in thousandths for z = 0.0, 0.1, ..., 2.4; 1000 from 2.5 on
ErfTable ==
    <<0, 112, 223, 329, 428, 520, 604, 678, 742, 797, 843, 880, 910, 934, 952,
      966, 976, 984, 989, 993, 995, 997, 998, 999, 999>>

Erf(z) ==
    LET a == IF z < 0 THEN -z ELSE z
        v == IF a + 1 > Len(ErfTable) THEN 1000 ELSE ErfTable[a + 1]
    IN IF z < 0 THEN -v ELSE v

\* x / y for a divisor y > 0, rounded towards zero
Quot(x, y) == IF x < 0 THEN -((-x) \div y) ELSE x \div y

\* analytical_value: *c = chi * (1.0 - erf(x / sqrt(4.0 * D * t)))
AnalyticalValue(x, t, DD, chi) ==
    chi * (1000 - Erf(Quot(10 * x, SqrtTenths(4 * DD * t))))

(***************************************************************************)
(* ResidualSumOfSquares2D                                                  *)
(***************************************************************************)
\* const int nx = r.rows().size() + 2;  const int ny = r.cols().size() + 2;
LocalNx(r) == Size(r.rows) + 2
LocalNy(r) == Size(r.cols) + 2

\* shortest distance to the left-wall source, for sizes nx_, ny_
LeftDistance(j, i, nx_, ny_) ==
    IF j < ny_ \div 2
    THEN 10 * dx * (i - 1)
    ELSE SqrtTenths(dx * dx * (i - 1) * (i - 1)
                    + dy * dy * (j - ny_ \div 2) * (j - ny_ \div 2))

\* shortest distance to the right-wall source, for sizes nx_, ny_
RightDistance(j, i, nx_, ny_) ==
    IF j >= ny_ \div 2
    THEN 10 * dx * (nx_ - 2 - i)
    ELSE SqrtTenths(dx * dx * (nx_ - 2 - i) * (nx_ - 2 - i)
                    + dy * dy * (ny_ \div 2 - j) * (ny_ \div 2 - j))

\* the concentration the second analytical_value call is given
RightSourceValue(c) == c

\* the locals of one pass of the loop body at cell <<j, i>> of range r, in a
\* body whose my_c is c
CellLocals(r, j, i, c, g) ==
    LET cn  == ReadField(A, j, i, g)
        xl  == LeftDistance(j, i, LocalNx(r), LocalNy(r))
        cal == AnalyticalValue(xl, elapsed, D, c)
        xr  == RightDistance(j, i, LocalNx(r), LocalNy(r))
        car == AnalyticalValue(xr, elapsed, D, RightSourceValue(c))
        ca  == cal + car
    IN [cn |-> cn, xl |-> xl, xr |-> xr, cal |-> cal, car |-> car,
        sq |-> (ca - cn) * (ca - cn),
        den |-> (LocalNx(r) - 2) * (LocalNy(r) - 2)]

\* the cells of r in the order the loops visit them: j outer, i inner
LoopSeq(r) ==
    [k \in 1 .. Size(r.cols) * Size(r.rows) |->
        <<r.cols.begin + ((k - 1) \div Size(r.rows)),
          r.rows.begin + ((k - 1) % Size(r.rows))>>]

\* operator(): sum = my_rss; sum += (ca-cn)*(ca-cn) / ((nx-2)*(ny-2)) per
\* cell; my_rss = sum
RECURSIVE Accumulate(_, _, _, _, _)
Accumulate(r, cells, sum, c, g) ==
    IF cells = <<>> THEN sum
    ELSE LET l == CellLocals(r, Head(cells)[1], Head(cells)[2], c, g)
         IN Accumulate(r, Tail(cells), RatAdd(sum, Rat(l.sq, l.den)), c, g)

\* history kept with a body: how many times the term of each cell has been
\* added into its my_rss, directly or through a join
NoTerms == <<>>
TermCount(f, c) == IF c \in DOMAIN f THEN f[c] ELSE 0
TermsAdded(f, cells) ==
    [c \in DOMAIN f \cup cells |-> TermCount(f, c) + (IF c \in cells THEN 1 ELSE 0)]
TermsJoined(f, h) ==
    [c \in DOMAIN f \cup DOMAIN h |-> TermCount(f, c) + TermCount(h, c)]

ResidualApply(r, body, g) ==
    [body EXCEPT !.my_rss = Accumulate(r, LoopSeq(r), body.my_rss, body.my_c, g),
                 !.terms = TermsAdded(body.terms, LoopCells(r))]

\* ResidualSumOfSquares2D(A, dx, dy, elapsed, D, c): my_rss(0.0).  The
\* members my_A, my_dx, my_dy, my_elapsed and my_D are the arguments of
\* check_solution in every body and are read from there.
NewBody(c) == [my_c |-> c, my_rss |-> Zero, terms |-> NoTerms]

\* the splitting constructor: copies of a's members, my_rss(0.0)
SplitBody(a) == [my_c |-> a.my_c, my_rss |-> Zero, terms |-> NoTerms]

\* join: my_rss += a.my_rss
JoinBody(body, a) ==
    [body EXCEPT !.my_rss = RatAdd(body.my_rss, a.my_rss),
                 !.terms = TermsJoined(body.terms, a.terms)]

\* ResidualSumOfSquares2D R(A, dx, dy, elapsed, D, bc[1][0])
RootBody == NewBody(bc[1][0])

\* a field of concentrations in thousandths
CheckField(s, rows, cols) ==
    [j \in 0 .. rows - 1 |-> [i \in 0 .. cols - 1 |->
        250 * TestField(s, rows, cols)[j][i]]]

(***************************************************************************)
(* parallel_reduce: check_solution.  A task is a sub-range with the body   *)
(* that will be applied to it and its place in the tree of splits (path: 0 *)
(* for a left half, 1 for a right half).  A body is named by the path of   *)
(* the sub-range it was made for; R is named by the empty path.            *)
(***************************************************************************)
Root == <<>>

\* p comes before q in the left-to-right order of the leaves of the tree
PathBefore(p, q) ==
    \E k \in 1 .. (IF Len(p) < Len(q) THEN Len(p) ELSE Len(q)) :
        /\ p[k] < q[k]
        /\ \A m \in 1 .. k - 1 : p[m] = q[m]

\* the body that id was split from: the one named by the longest proper
\* prefix of id
IsPrefix(p, q) == Len(p) < Len(q) /\ \A m \in 1 .. Len(p) : p[m] = q[m]
ParentOf(id) ==
    CHOOSE p \in DOMAIN bodies :
        /\ IsPrefix(p, id)
        /\ \A q \in DOMAIN bodies : IsPrefix(q, id) => Len(q) <= Len(p)

InitCheck ==
    /\ op = "check"
    /\ pc = "run"
    /\ nx \in 3 .. MaxN
    /\ ny \in 3 .. MaxN
    /\ nm = 1
    /\ \E s \in 0 .. MaxSeed : A = CheckField(s, ny, nx)
    /\ B = NoField /\ C = NoField /\ M = NoField
    /\ D = 1 /\ dt = 0
    /\ elapsed = 1
    /\ dx = 1 /\ dy \in 1 .. 2
    /\ bc \in {[k \in 0 .. 1 |-> [e \in 0 .. 1 |-> IF k = 0 THEN 0 ELSE hi[e + 1]]] :
                 hi \in {<<1, 1>>, <<1, 2>>}}
    /\ tasks = {[r |-> FullRange, b |-> Root, path |-> Root]}
    /\ bodies = (Root :> RootBody)
    /\ rss = Zero
    /\ wlog = NoLog /\ rlog = {} /\ oob = FALSE /\ cellLog = NoLog
    /\ \E g \in [OutOfField(LoopCells(FullRange)) -> Garbage] :
          ref = ResidualApply(FullRange, RootBody, g).my_rss
    /\ init = [elapsed |-> elapsed, A |-> A, B |-> B, C |-> C, M |-> M]
    /\ calls = 0
    /\ NoMain

\* a divisible sub-range is split; the right half stays with the same body,
\* or, when another thread steals it, gets a body made by the splitting
\* constructor
CheckSplit ==
    /\ op = "check" /\ pc = "run"
    /\ \E t \in tasks :
         /\ IsDivisible(t.r)
         /\ \E stolen \in BOOLEAN :
              LET right == Append(t.path, 1)
                  id == IF stolen THEN right ELSE t.b
              IN /\ stolen => Cardinality(DOMAIN bodies) < MaxBodies
                 /\ tasks' = (tasks \ {t}) \cup
                        {[r |-> SplitLeft(t.r), b |-> t.b, path |-> Append(t.path, 0)],
                         [r |-> SplitRight(t.r), b |-> id, path |-> right]}
                 /\ bodies' = IF stolen
                              THEN bodies @@ (right :> SplitBody(bodies[t.b]))
                              ELSE bodies
    /\ UNCHANGED <<mainVars, op, pc, nx, ny, nm, A, B, C, M, D, dt, elapsed, dx, dy, bc,
                   rss, wlog, rlog, oob, cellLog, ref, init, calls>>

\* a body is applied to the leftmost of its outstanding sub-ranges
CheckTile ==
    /\ op = "check" /\ pc = "run"
    /\ \E t \in tasks :
         /\ \A u \in tasks : u.b = t.b => ~PathBefore(u.path, t.path)
         /\ \E g \in [OutOfField(LoopCells(t.r)) -> Garbage] :
              /\ bodies' = [bodies EXCEPT ![t.b] = ResidualApply(t.r, bodies[t.b], g)]
              /\ tasks' = tasks \ {t}
              /\ cellLog' = [k \in LoopCells(t.r) |->
                               CellLocals(t.r, k[1], k[2], bodies[t.b].my_c, g)]
              /\ rlog' = rlog \cup {<<"A", c[1], c[2]>> : c \in LoopCells(t.r)}
              /\ oob' = (oob \/ OutOfField(LoopCells(t.r)) # {})
    /\ UNCHANGED <<mainVars, op, pc, nx, ny, nm, A, B, C, M, D, dt, elapsed, dx, dy, bc,
                   rss, wlog, ref, init, calls>>

\* a body made by a split is joined into the body it was split from and
\* destroyed, once its own sub-ranges are processed, the bodies split from
\* it are joined, and the other body has processed what lies to its left
CheckJoin ==
    /\ op = "check" /\ pc = "run"
    /\ \E id \in DOMAIN bodies \ {Root} :
         /\ \A t \in tasks : t.b # id
         /\ \A k \in DOMAIN bodies : ~IsPrefix(id, k)
         /\ \A t \in tasks : t.b = ParentOf(id) => ~PathBefore(t.path, id)
         /\ bodies' = [k \in DOMAIN bodies \ {id} |->
                          IF k = ParentOf(id) THEN JoinBody(bodies[k], bodies[id])
                          ELSE bodies[k]]
    /\ UNCHANGED <<mainVars, op, pc, nx, ny, nm, A, B, C, M, D, dt, elapsed, dx, dy, bc,
                   tasks, rss, wlog, rlog, oob, cellLog, ref, init, calls>>

\* parallel_reduce has returned: *rss = R.my_rss
CheckReturn ==
    /\ op = "check" /\ pc = "run" /\ tasks = {}
    /\ DOMAIN bodies = {Root}
    /\ rss' = bodies[Root].my_rss
    /\ pc' = "done"
    /\ calls' = calls + 1
    /\ UNCHANGED <<mainVars, op, nx, ny, nm, A, B, C, M, D, dt, elapsed, dx, dy, bc, tasks,
                   bodies, wlog, rlog, oob, cellLog, ref, init>>

NextCheck == CheckSplit \/ CheckTile \/ CheckJoin \/ CheckReturn

SpecCheck == InitCheck /\ [][NextCheck]_vars

\* check_solution on square grids, where the unsplit run neither leaves the
\* field nor exchanges nx and ny
InitCheckSquare == InitCheck /\ nx = ny

SpecCheckSquare == InitCheckSquare /\ [][NextCheck]_vars

(***************************************************************************)
(* Claims about compute_convolution and step_in_time                       *)
(***************************************************************************)
(***************************************************************************)
(* The driver: main of src/unnamed/part_000.                               *)
(*                                                                         *)
(* Units.  dx, dy are in tenths, linStab in tenths, D in units of 1/1600   *)
(* (D = 10 is the default 0.00625), dt and elapsed in thousandths.  The    *)
(* contents of a buffer are not computed here: a buffer holds <<k>> when   *)
(* it holds the field written by step k (<<0>> for the initial condition)  *)
(* and <<>> when nothing has been written to it since its allocation.      *)
(* The interval `checks` is taken positive: step % 0 is not modelled.      *)
(***************************************************************************)
\* a faulty variant: linStab held in an integer, 0.1 becomes 0
TimeStepTruncated(dx_, dy_, D_, ls) ==
    LET h == IF dx_ > dy_ THEN dy_ ELSE dx_
    IN  (400 * (ls \div 10) * 10 * h * h) \div D_
\* h = (dx > dy) ? dy : dx;  dt = (linStab * h * h) / (4.0 * D)
TimeStep(dx_, dy_, D_, ls) ==
    LET h == IF dx_ > dy_ THEN dy_ ELSE dx_
    IN  (400 * ls * h * h) \div D_

\* the pair of field buffers that make_arrays allocates
BufferPair == {"first", "second"}
\* the initial value 0. of rss: not the residual of any field
RssZero == <<>>
\* what check_solution returns for a field at a time: kept symbolic
Residual(content, t) == <<content, t>>
\* swap_pointers(&a, &b): the two pointers exchange their values
SwapPointers(a, b) == <<b, a>>
\* a faulty variant of the call: the address of conc_old passed twice
SwapCallSame(o, n) == SwapPointers(o, o)
\* swap_pointers(&conc_old, &conc_new)
SwapCall(o, n) == SwapPointers(o, n)
\* the field given to write_png in the loop: conc_new
PngField(o, n) == n
\* the field given to check_solution: conc_new
ResidualField(o, n) == n
\* a faulty variant: the table written from conc_new
CsvFieldNext(o, n) == n
\* the field given to write_csv after the loop: conc_old
CsvField(o, n) == o
\* step % checks == 0
ImageDue(k, c) == k % c = 0
\* a faulty variant: the residual check governed by `checks`
ResidualDueByChecks(k, c) == k % c = 0
\* step % 100 == 0, the interval scaled down to ResidualInterval
ResidualDue(k, c) == k % ResidualInterval = 0
\* the loop condition step < steps+1
LoopPc(k, n) == IF k < n + 1 THEN "solve" ELSE "csv"

\* the state after apply_initial_conditions, before the first output
InitMain ==
    /\ op = "main" /\ pc = "start"
    /\ nx = MaxN /\ ny = MaxN /\ nm = 1
    /\ A = NoField /\ B = NoField /\ C = NoField /\ M = NoField
    /\ dx \in {5, 10} /\ dy \in {5, 10} /\ D \in {10, 20} /\ linStab \in {1, 2}
    /\ dt = TimeStep(dx, dy, D, linStab)
    /\ elapsed = 0 /\ rss = RssZero /\ bc = NoField
    /\ tasks = {} /\ bodies = NoBodies
    /\ wlog = NoLog /\ rlog = {} /\ oob = FALSE /\ cellLog = NoLog
    /\ ref = NoLog /\ init = NoLog /\ calls = 0
    /\ step = 0 /\ steps \in 0 .. MaxSteps /\ checks \in 1 .. MaxChecks
    /\ conc_old = "first" /\ conc_new = "second"
    /\ bufs = [b \in BufferPair |-> IF b = "first" THEN <<0>> ELSE <<>>]
    /\ runlog = <<>> /\ files = <<>> /\ checked = <<>> /\ solved = <<>>

\* write_png(conc_old, nx, ny, 0); the header and the step-0 row; step = 1
MainStart ==
    /\ op = "main" /\ pc = "start"
    /\ files' = Append(files, <<"png", conc_old, bufs[conc_old], 0>>)
    /\ runlog' = Append(runlog, [iter |-> step, sim_time |-> elapsed, wrss |-> rss])
    /\ step' = 1
    /\ pc' = LoopPc(1, steps)
    /\ UNCHANGED <<op, nx, ny, nm, A, B, C, M, D, dt, elapsed, dx, dy, bc, tasks,
                   bodies, rss, wlog, rlog, oob, cellLog, ref, init, calls,
                   steps, checks, linStab, conc_old, conc_new, bufs, checked, solved>>

\* solve_diffusion_equation(conc_old, conc_new, ..., &elapsed, &sw): reads the
\* current field, writes the next one and advances elapsed by dt
MainSolve ==
    /\ op = "main" /\ pc = "solve"
    /\ solved' = Append(solved, [step |-> step, from |-> conc_old, to |-> conc_new,
                                 content |-> bufs[conc_old]])
    /\ bufs' = [bufs EXCEPT ![conc_new] = <<step>>]
    /\ elapsed' = ElapsedAfterStep(elapsed, dt)
    /\ calls' = calls + 1
    /\ pc' = "png"
    /\ UNCHANGED <<op, nx, ny, nm, A, B, C, M, D, dt, dx, dy, bc, tasks,
                   bodies, rss, wlog, rlog, oob, cellLog, ref, init,
                   step, steps, checks, linStab, conc_old, conc_new, runlog,
                   files, checked>>

\* if (step % checks == 0) write_png(conc_new, nx, ny, step)
MainPng ==
    /\ op = "main" /\ pc = "png"
    /\ files' = IF ImageDue(step, checks)
                THEN Append(files, <<"png", PngField(conc_old, conc_new),
                                     bufs[PngField(conc_old, conc_new)], step>>)
                ELSE files
    /\ pc' = "check"
    /\ UNCHANGED <<op, nx, ny, nm, A, B, C, M, D, dt, elapsed, dx, dy, bc, tasks,
                   bodies, rss, wlog, rlog, oob, cellLog, ref, init, calls,
                   step, steps, checks, linStab, conc_old, conc_new, bufs, runlog,
                   checked, solved>>

\* if (step % 100 == 0) { check_solution(conc_new, ..., elapsed, ..., &rss); fprintf(row) }
MainCheck ==
    /\ op = "main" /\ pc = "check"
    /\ IF ResidualDue(step, checks)
       THEN LET f == ResidualField(conc_old, conc_new)
                r == Residual(bufs[f], elapsed)
            IN  /\ checked' = Append(checked, [step |-> step, elapsed |-> elapsed,
                                               field |-> f, content |-> bufs[f]])
                /\ rss' = r
                /\ runlog' = Append(runlog, [iter |-> step, sim_time |-> elapsed,
                                             wrss |-> r])
       ELSE UNCHANGED <<checked, rss, runlog>>
    /\ pc' = "swap"
    /\ UNCHANGED <<op, nx, ny, nm, A, B, C, M, D, dt, elapsed, dx, dy, bc, tasks,
                   bodies, wlog, rlog, oob, cellLog, ref, init, calls,
                   step, steps, checks, linStab, conc_old, conc_new, bufs,
                   files, solved>>

\* swap_pointers(&conc_old, &conc_new); step++; the loop condition
MainSwap ==
    /\ op = "main" /\ pc = "swap"
    /\ conc_old' = SwapCall(conc_old, conc_new)[1]
    /\ conc_new' = SwapCall(conc_old, conc_new)[2]
    /\ step' = step + 1
    /\ pc' = LoopPc(step + 1, steps)
    /\ UNCHANGED <<op, nx, ny, nm, A, B, C, M, D, dt, elapsed, dx, dy, bc, tasks,
                   bodies, rss, wlog, rlog, oob, cellLog, ref, init, calls,
                   steps, checks, linStab, bufs, runlog, files, checked, solved>>

\* write_csv(conc_old, nx, ny, dx, dy, steps); fclose; free_arrays; return
MainCsv ==
    /\ op = "main" /\ pc = "csv"
    /\ files' = Append(files, <<"csv", CsvField(conc_old, conc_new),
                                bufs[CsvField(conc_old, conc_new)], steps>>)
    /\ pc' = "exit"
    /\ UNCHANGED <<op, nx, ny, nm, A, B, C, M, D, dt, elapsed, dx, dy, bc, tasks,
                   bodies, rss, wlog, rlog, oob, cellLog, ref, init, calls,
                   step, steps, checks, linStab, conc_old, conc_new, bufs, runlog,
                   checked, solved>>

NextMain == MainStart \/ MainSolve \/ MainPng \/ MainCheck \/ MainSwap \/ MainCsv

SpecMain == InitMain /\ [][NextMain]_vars


(***************************************************************************)
(* set_mask.  Here dx and dy are positive rationals <<numerator,           *)
(* denominator>> in lowest terms and the coefficients are exact rationals; *)
(* the rounding of the double arithmetic is not modelled.                  *)
(***************************************************************************)
RatMul(p, q) == Rat(p[1] * q[1], p[2] * q[2])
\* p / q for q > 0
RatDiv(p, q) == Rat(p[1] * q[2], p[2] * q[1])
One == <<1, 1>>
\* 1.0 / (dy * dy)
Vertical(dx_, dy_) == RatDiv(One, RatMul(dy_, dy_))
\* a faulty variant: the horizontal neighbours from dy
HorizontalFromDy(dx_, dy_) == RatDiv(One, RatMul(dy_, dy_))
\* 1.0 / (dx * dx)
Horizontal(dx_, dy_) == RatDiv(One, RatMul(dx_, dx_))
\* a faulty variant: right only for square cells
CenterSquareCells(dx_, dy_) == RatDiv(<<-4, 1>>, RatMul(dx_, dy_))
\* -2.0 * (dx*dx + dy*dy) / (dx*dx * dy*dy)
Center(dx_, dy_) ==
    RatDiv(RatMul(<<-2, 1>>, RatAdd(RatMul(dx_, dx_), RatMul(dy_, dy_))),
           RatMul(RatMul(dx_, dx_), RatMul(dy_, dy_)))
\* set_mask(dx, dy, &nm, M): *nm and the five entries of M it assigns; the
\* other entries of M keep what the caller left there
SetMask(dx_, dy_, M0) ==
    [nm |-> 1,
     M  |-> [r \in 0 .. 2 |-> [c \in 0 .. 2 |->
               IF r = 0 /\ c = 1 THEN Vertical(dx_, dy_)
               ELSE IF r = 1 /\ c = 0 THEN Horizontal(dx_, dy_)
               ELSE IF r = 1 /\ c = 1 THEN Center(dx_, dy_)
               ELSE IF r = 1 /\ c = 2 THEN Horizontal(dx_, dy_)
               ELSE IF r = 2 /\ c = 1 THEN Vertical(dx_, dy_)
               ELSE M0[r][c]]]]
\* the mask buffer as the caller hands it over: "M is initialized to zero"
ZeroMask == [r \in 0 .. 2 |-> [c \in 0 .. 2 |-> Zero]]
\* the grid spacings tried
Spacings == {Rat(p, q) : p \in 1 .. MaxH, q \in 1 .. MaxH}

InitMask ==
    /\ op = "mask" /\ pc = "run"
    /\ dx \in Spacings /\ dy \in Spacings
    /\ nm \in {0, 3}
    /\ M = ZeroMask
    /\ nx = MaxN /\ ny = MaxN
    /\ A = NoField /\ B = NoField /\ C = NoField
    /\ D = 0 /\ dt = 0 /\ elapsed = 0 /\ rss = Zero /\ bc = NoField
    /\ tasks = {} /\ bodies = NoBodies
    /\ wlog = NoLog /\ rlog = {} /\ oob = FALSE /\ cellLog = NoLog
    /\ ref = NoLog /\ init = [M |-> M, nm |-> nm] /\ calls = 0
    /\ NoMain

SetMaskCall ==
    /\ op = "mask" /\ pc = "run"
    /\ nm' = SetMask(dx, dy, M).nm
    /\ M' = SetMask(dx, dy, M).M
    /\ pc' = "done"
    /\ calls' = calls + 1
    /\ UNCHANGED <<mainVars, op, nx, ny, A, B, C, D, dt, elapsed, dx, dy, bc, tasks,
                   bodies, rss, wlog, rlog, oob, cellLog, ref, init>>

NextMask == SetMaskCall

SpecMask == InitMask /\ [][NextMask]_vars


ConvDone == op = "conv" /\ pc = "done"
StepDone == op = "step" /\ pc = "done"

\* the field the call writes
OutName == IF op = "conv" THEN "C" ELSE "B"

\* sum over mj, mi in [-nm, nm] of M[mj+nm][mi+nm] * A[j+mj][i+mi]
RECURSIVE StencilSum(_, _, _)
StencilSum(j, i, offs) ==
    IF offs = {} THEN 0
    ELSE LET d == CHOOSE e \in offs : TRUE
         IN M[d[1] + nm][d[2] + nm] * A[j + d[1]][i + d[2]]
            + StencilSum(j, i, offs \ {d})

\* C2: after compute_convolution every interior cell (1 <= j <= ny-2,
\* 1 <= i <= nx-2) of C holds the stencil sum of A around it, for all
\* nx, ny >= 3, nx # ny included.
C2_ConvolutionOnInterior ==
    ConvDone =>
        \A c \in Interior : C[c[1]][c[2]] = StencilSum(c[1], c[2], MaskOffsets)

\* C3: during one call the tile tasks write pairwise disjoint sets of output
\* cells, every interior cell of the output field is written by exactly one
\* task, and no task reads a cell of a field that a task of the call writes.
C3_DisjointTiles ==
    /\ \A k \in DOMAIN wlog : wlog[k] = 1 /\ k \notin rlog
    /\ (ConvDone \/ StepDone) =>
          \A c \in Interior :
             /\ <<OutName, c[1], c[2]>> \in DOMAIN wlog
             /\ wlog[<<OutName, c[1], c[2]>>] = 1

\* C4: for the same A and M the contents of C after compute_convolution are
\* the same for every partition into tiles and every order of the tile
\* tasks: they equal the contents an unsplit run leaves.
C4_ConvolutionDeterministic ==
    ConvDone => C = ref

\* C5: after step_in_time every interior cell of B holds
\* A[j][i] + dt*D*C[j][i]; with D = 0 it equals the same cell of A.
C5_StepOnInterior ==
    StepDone =>
        \A c \in Interior :
           /\ B[c[1]][c[2]] = A[c[1]][c[2]] + dt * D * C[c[1]][c[2]]
           /\ D = 0 => B[c[1]][c[2]] = A[c[1]][c[2]]

\* C9: compute_convolution writes only interior cells of C and leaves A and
\* M unchanged; step_in_time writes only interior cells of B and leaves A
\* and C unchanged.
C9_OnlyInteriorWritten ==
    /\ \A k \in DOMAIN wlog : k[1] = OutName /\ <<k[2], k[3]>> \in Interior
    /\ A = init.A /\ M = init.M
    /\ op = "step" => C = init.C
    /\ \A j \in Rows, i \in Cols :
          <<j, i>> \notin Interior =>
             IF op = "conv" THEN C[j][i] = init.C[j][i] ELSE B[j][i] = init.B[j][i]

\* C10: each call of step_in_time adds dt to *elapsed exactly once, in the
\* step that returns from the call, when no tile task is outstanding; the
\* tile tasks leave *elapsed alone; after k calls it is the initial value
\* plus k*dt.
C10_ElapsedOncePerCall ==
    /\ [](op = "step" => elapsed = init.elapsed + calls * dt)
    /\ [][elapsed' # elapsed =>
            /\ tasks = {} /\ pc = "run" /\ pc' = "done"
            /\ calls' = calls + 1
            /\ elapsed' = elapsed + dt]_vars

\* the second call is under way with several tiles outstanding and some
\* already run, and *elapsed has advanced by one dt
C10_Witness ==
    /\ op = "step" /\ pc = "run" /\ calls = 1
    /\ Cardinality(tasks) >= 2 /\ DOMAIN wlog # {}
    /\ elapsed = init.elapsed + dt

(***************************************************************************)
(* Claims about check_solution                                             *)
(***************************************************************************)
CheckDone == op = "check" /\ pc = "done"

\* a range whose extents give the loop body the domain's own nx and ny
DomainRange == Range2d(1, nx - 1, 1, ny - 1)

\* the mean over the interior cells of the squared deviation, every distance
\* taken with the domain's nx and ny
RECURSIVE SquareSum(_)
SquareSum(cells) ==
    IF cells = {} THEN 0
    ELSE LET c == CHOOSE e \in cells : TRUE
         IN CellLocals(DomainRange, c[1], c[2], bc[1][0], NoLog).sq
            + SquareSum(cells \ {c})

MeanSquare == Rat(SquareSum(Interior), (nx - 2) * (ny - 2))

\* C1: for fixed A, nx, ny, dx, dy, elapsed, D and bc the value stored in
\* *rss is the same for every partition of the interior into tiles and every
\* order of splits and joins: it is the value of the unsplit run.
C1_ResidualPartitionInvariant ==
    CheckDone => rss = ref

\* C6: every cell's squared deviation is divided by the interior cell count
\* of the whole domain, (nx-2)*(ny-2), whatever tile the cell is processed
\* in, so that *rss is the mean of the squared deviations.
C6_NormalizedByDomain ==
    /\ \A k \in DOMAIN cellLog : cellLog[k].den = (nx - 2) * (ny - 2)
    /\ CheckDone => rss = MeanSquare

\* C7: the distances of cell (j, i) to the two sources are those given by
\* the domain sizes nx and ny of check_solution, not by the size of the tile.
C7_DistancesByDomain ==
    \A k \in DOMAIN cellLog :
       /\ cellLog[k].xl = LeftDistance(k[1], k[2], nx, ny)
       /\ cellLog[k].xr = RightDistance(k[1], k[2], nx, ny)

\* C8: the analytical solution of the left-wall source is scaled by
\* bc[1][0] and that of the right-wall source by bc[1][1].
C8_BothConcentrationsUsed ==
    \A k \in DOMAIN cellLog :
       /\ cellLog[k].cal = AnalyticalValue(cellLog[k].xl, elapsed, D, bc[1][0])
       /\ cellLog[k].car = AnalyticalValue(cellLog[k].xr, elapsed, D, bc[1][1])

(***************************************************************************)
(* Properties of the driver.                                               *)
(***************************************************************************)
\* C11: every call of check_solution made by main has elapsed > 0 and belongs
\* to a step k >= 1 whose solve has completed; the step-0 row of the log is
\* written with rss = 0 and without a call of check_solution
C11_ResidualAfterFirstStep ==
    op = "main" =>
        /\ \A k \in DOMAIN checked :
              /\ checked[k].elapsed > 0
              /\ checked[k].step >= 1
              /\ \E m \in DOMAIN solved : solved[m].step = checked[k].step
        /\ pc = "start" => checked = <<>> /\ runlog = <<>>
        /\ pc # "start" =>
              /\ runlog[1] = [iter |-> 0, sim_time |-> 0, wrss |-> RssZero]
              /\ Len(runlog) = 1 + Len(checked)
C11_Witness ==
    op = "main" /\ Len(checked) >= 2 /\ checked[1].elapsed > 0 /\ Len(runlog) = 3

\* the number of calls of solve_diffusion_equation made so far, from the
\* position of main
StepsSolved ==
    IF pc = "start" THEN 0
    ELSE IF pc = "solve" THEN step - 1
    ELSE IF pc \in {"png", "check", "swap"} THEN step
    ELSE steps
C12_FieldsInOrder ==
    op = "main" =>
        /\ Len(solved) = StepsSolved
        /\ \A m \in DOMAIN solved :
              /\ solved[m].step = m
              /\ solved[m].content = <<m - 1>>
              /\ m > 1 => solved[m].from = solved[m - 1].to
        /\ \A k \in DOMAIN checked :
              /\ checked[k].content = <<checked[k].step>>
              /\ checked[k].field = solved[checked[k].step].to
        /\ \A k \in DOMAIN files :
              /\ files[k][3] = <<files[k][4]>>
              /\ files[k][4] >= 1 => files[k][2] = solved[files[k][4]].to
        /\ pc = "exit" => files[Len(files)][1] = "csv" /\ files[Len(files)][4] = steps
C12_SwapStep ==
    /\ (conc_old' # conc_old \/ conc_new' # conc_new) =>
          /\ pc = "swap" /\ pc' \in {"solve", "csv"}
          /\ conc_old' = conc_new /\ conc_new' = conc_old
    /\ (op = "main" /\ pc = "swap" /\ pc' # pc) =>
          /\ conc_old' = conc_new /\ conc_new' = conc_old
          /\ step' = step + 1
    /\ (op = "main" /\ solved' # solved) => pc = "solve" /\ pc' = "png"
\* C12: in every iteration main solves once and then swaps once, after the
\* image output and the residual check of that step: step k+1 reads the field
\* step k wrote, write_png and check_solution at step k get the field step k
\* wrote, and write_csv gets the field the final step wrote
C12_OneStepOneSwap == []C12_FieldsInOrder /\ [][C12_SwapStep]_vars
C12_Witness ==
    /\ op = "main" /\ pc = "exit" /\ steps >= 3
    /\ Len(checked) >= 1 /\ Len(files) >= 3
    /\ files[Len(files)] = <<"csv", conc_old, <<steps>>, steps>>

\* C13: throughout the run of main, conc_old and conc_new refer to the two
\* different buffers of the pair allocated at startup, and no call of
\* solve_diffusion_equation reads and writes the same buffer
C13_BuffersDistinct ==
    op = "main" =>
        /\ conc_old \in BufferPair /\ conc_new \in BufferPair
        /\ conc_old # conc_new
        /\ \A m \in DOMAIN solved :
              /\ solved[m].from # solved[m].to
              /\ {solved[m].from, solved[m].to} = BufferPair
C13_Witness ==
    /\ op = "main" /\ pc = "png" /\ step = 4
    /\ conc_old = "second" /\ conc_new = "first"
    /\ solved[4].from = "second" /\ solved[4].to = "first"

(***************************************************************************)
(* Properties of set_mask.                                                 *)
(***************************************************************************)
MaskDone == op = "mask" /\ pc = "done"
\* the rational m equals num / den, by cross-multiplication
RatIs(m, num, den) == m[1] * den = num * m[2]
\* dx^2 and dy^2 over the common denominator (dx[2] * dy[2])^2
Dx2 == dx[1] * dx[1] * dy[2] * dy[2]
Dy2 == dy[1] * dy[1] * dx[2] * dx[2]
Den2 == dx[2] * dx[2] * dy[2] * dy[2]
\* C14: after set_mask with dx, dy > 0, nm = 1, the center is
\* -2*(dx^2+dy^2)/(dx^2*dy^2), the vertical neighbours are 1/dy^2, the
\* horizontal neighbours are 1/dx^2 and the four corners are zero, also for
\* dx # dy
C14_MaskCoefficients ==
    MaskDone =>
        /\ nm = 1
        /\ RatIs(M[1][1], -2 * (Dx2 + Dy2) * Den2, Dx2 * Dy2)
        /\ RatIs(M[0][1], Den2, Dy2) /\ RatIs(M[2][1], Den2, Dy2)
        /\ RatIs(M[1][0], Den2, Dx2) /\ RatIs(M[1][2], Den2, Dx2)
        /\ \A r \in {0, 2} : \A c \in {0, 2} : M[r][c][1] = 0
C14_Witness ==
    /\ MaskDone /\ dx = <<1, 2>> /\ dy = <<3, 4>> /\ init.nm = 3
    /\ M[1][0] = <<4, 1>> /\ M[0][1] = <<16, 9>> /\ M[1][1] = <<-104, 9>>

\* C15: the nine coefficients written by set_mask sum to zero exactly, as
\* rationals, for any positive dx, dy, and the mask is symmetric about its
\* center
C15_MaskSumsToZero ==
    MaskDone =>
        /\ RatAdd(RatAdd(RatAdd(RatAdd(M[0][0], M[0][1]), RatAdd(M[0][2], M[1][0])),
                         RatAdd(RatAdd(M[1][1], M[1][2]), RatAdd(M[2][0], M[2][1]))),
                  M[2][2]) = Zero
        /\ M[0][1] = M[2][1] /\ M[1][0] = M[1][2]
        /\ M[0][0] = M[2][2] /\ M[0][2] = M[2][0]
C15_Witness ==
    /\ MaskDone /\ dx = <<2, 1>> /\ dy = <<1, 3>>
    /\ M[1][1] = <<-37, 2>> /\ M[0][1] = <<9, 1>> /\ M[1][2] = <<1, 4>>

(***************************************************************************)
(* Properties of the reduction and of the index ranges.                    *)
(***************************************************************************)
\* C16: when check_solution returns, the term of every interior cell
\* (1 <= j <= ny-2, 1 <= i <= nx-2) has been added into the total exactly
\* once and no other term has, whatever the splits, the bodies applied to
\* several sub-ranges and the joins
C16_EachInteriorCellOnce ==
    CheckDone =>
        /\ DOMAIN bodies[Root].terms = Interior
        /\ \A c \in Interior : bodies[Root].terms[c] = 1

\* C17: with nm = 1, compute_convolution, step_in_time and check_solution
\* never read or write outside rows 0..ny-1 and columns 0..nx-1 of a field,
\* for all nx, ny >= 3: the row index j of the loops stays within [1, ny-2]
\* and the column index i within [1, nx-2]
C17_IndicesInField ==
    /\ ~oob
    /\ \A k \in rlog : InField(k[2], k[3])
    /\ \A k \in DOMAIN wlog :
          /\ InField(k[2], k[3])
          /\ k[2] \in 1 .. ny - 2 /\ k[3] \in 1 .. nx - 2
    /\ \A k \in DOMAIN cellLog : k[1] \in 1 .. ny - 2 /\ k[2] \in 1 .. nx - 2

\* the number of steps whose residual check, if due, has been made
StepsChecked ==
    IF pc = "start" THEN 0
    ELSE IF pc \in {"solve", "png", "check"} THEN step - 1
    ELSE IF pc = "swap" THEN step
    ELSE steps
\* C18: main calls check_solution and appends a row to the log at exactly
\* the steps in 1..steps that are multiples of the residual interval, whatever
\* `checks` is; the row of step k carries the residual returned for the field
\* written by step k; with the step-0 row the log has one row per check, the
\* step index and the elapsed time strictly increasing
C18_LogRows ==
    op = "main" =>
        /\ Len(checked) = StepsChecked \div ResidualInterval
        /\ \A k \in DOMAIN checked :
              /\ checked[k].step = k * ResidualInterval
              /\ checked[k].step \in 1 .. steps
              /\ checked[k].content = <<checked[k].step>>
              /\ checked[k].elapsed = checked[k].step * dt
        /\ pc # "start" =>
              /\ Len(runlog) = 1 + Len(checked)
              /\ runlog[1].iter = 0
              /\ \A k \in DOMAIN checked :
                    /\ runlog[k + 1].iter = checked[k].step
                    /\ runlog[k + 1].sim_time = checked[k].elapsed
                    /\ runlog[k + 1].wrss = Residual(<<checked[k].step>>, checked[k].elapsed)
              /\ \A k \in 1 .. Len(runlog) - 1 :
                    /\ runlog[k].iter < runlog[k + 1].iter
                    /\ runlog[k].sim_time < runlog[k + 1].sim_time
C18_Witness ==
    /\ op = "main" /\ pc = "exit" /\ checks # ResidualInterval
    /\ steps = 3 * ResidualInterval
    /\ Len(runlog) = 4 /\ runlog[4].iter = steps
    /\ \E k \in DOMAIN files : files[k][1] = "png" /\ files[k][4] % ResidualInterval # 0

====
